---- MODULE Spec2Model ----
(***************************************************************************)
(* A byte-level model of neo-alloc.c: a recency-ordered, first-fit,        *)
(* non-splitting, non-coalescing allocator.                                *)
(*                                                                         *)
(* The model machine has WORD_SIZE-byte words: a pointer and a size_t      *)
(* take WORD_SIZE bytes each, sizeof(header_s) is two words, and all       *)
(* size_t / address arithmetic is taken modulo 2^(8*WORD_SIZE).  Every     *)
(* offset the code computes is written in terms of sizeof, so the layout   *)
(* (payload at header + sizeof(header_s)*sizeof(header_s), free() looking  *)
(* for the header at ptr - sizeof(header_s), realloc() writing the size at *)
(* ptr - 1) is the code's own on this machine.  Fields are little-endian.  *)
(*                                                                         *)
(* An access outside [start_ptr, end_ptr) is undefined behaviour: the      *)
(* process faults, or (inside the modelled window of memory) the access    *)
(* lands on whatever is mapped there.                                      *)
(***************************************************************************)
EXTENDS Integers, Sequences, FiniteSets, TLC

\* ------------------------------------------------------------------------
\* Bounds of the model.

\* Bytes reserved for the heap (HEAP_SIZE is GB(2) in the source).
HEAP_SIZE == 48

\* Calls made by the client program in one run.
MaxOps == 4

\* Blocks the client holds at once.
MaxLive == 3

\* ------------------------------------------------------------------------
\* Constants of the program.

NULL == 0

WORD_SIZE == 2

DOUBLE_WORD_SIZE == WORD_SIZE * 2

\* sizeof(header_s): a size_t and a pointer.
SizeofHeader == WORD_SIZE + WORD_SIZE

\* offsetof(header_s, next).
OffsetNext == WORD_SIZE

\* Number of values of size_t / of an address.
Mod == 2 ^ (8 * WORD_SIZE)

Wrap(x) == x % Mod

\* Values of one byte.
ByteMod == 2 ^ 8

\* The address mmap() returns, and the extent of the modelled window of
\* memory around the heap: [0, MemTop).
HeapBase == SizeofHeader * SizeofHeader

MemTop == HeapBase + HEAP_SIZE + SizeofHeader * SizeofHeader

Window == 0 .. (MemTop - 1)

\* header_s* + k: pointer arithmetic on header_s* scales by sizeof(header_s).
HeaderPlus(h, k) == Wrap(h + k * SizeofHeader)

\* Arithmetic on a void pointer (GNU C): byte arithmetic.
VoidPlus(p, k) == Wrap(p + k)

VARIABLES
  mem,             \* the bytes of the modelled window of memory
  free_ptr,        \* the current beginning of free heap space (NULL before init)
  start_ptr,       \* the beginning of the heap
  end_ptr,         \* the end of the heap
  free_list_head,  \* the head of the free list
  pc,              \* "run", or how the process ended: "crashed", "hung", "exited"
  live,            \* client: the blocks it holds, <<[ptr, n, wr]>>
  released,        \* client: the blocks it released that were not handed out again
  last,            \* client: the last call, its arguments and its result
  ops              \* client: number of calls made

vars == <<mem, free_ptr, start_ptr, end_ptr, free_list_head, pc, live, released, last, ops>>

heap == <<mem, free_ptr, start_ptr, end_ptr, free_list_head>>

\* ------------------------------------------------------------------------
\* The allocator's state as one value, threaded through the C functions.
\* ub: an access fell outside the heap but inside the window;
\* fault: an access fell outside the window; stop: "exit" or "hang".

Cur ==
  [mem |-> mem, free_ptr |-> free_ptr, start_ptr |-> start_ptr, end_ptr |-> end_ptr,
   free_list_head |-> free_list_head, ub |-> FALSE, fault |-> FALSE, stop |-> ""]

InHeap(s, a, len) == s.free_ptr # NULL /\ s.start_ptr <= a /\ a + len <= s.end_ptr

InWindow(a, len) == 0 <= a /\ a + len <= MemTop

Touch(s, a, len) ==
  IF len = 0 \/ InHeap(s, a, len) THEN s
  ELSE IF InWindow(a, len) THEN [s EXCEPT !.ub = TRUE]
  ELSE [s EXCEPT !.fault = TRUE]

LoadByte(s, a) == IF a \in Window THEN s.mem[a] ELSE 0

RECURSIVE LoadBytes(_, _, _)
LoadBytes(s, a, k) ==
  IF k = 0 THEN 0 ELSE LoadByte(s, a) + ByteMod * LoadBytes(s, a + 1, k - 1)

\* Read a size_t or a pointer at address a.
Load(s, a) == LoadBytes(s, a, WORD_SIZE)

ByteOf(v, k) == (v \div (ByteMod ^ k)) % ByteMod

\* Write a size_t or a pointer at address a.
Store(s, a, v) ==
  [Touch(s, a, WORD_SIZE) EXCEPT
     !.mem = [x \in Window |->
                IF a <= x /\ x < a + WORD_SIZE THEN ByteOf(v, x - a) ELSE s.mem[x]]]

\* memset(a, b, len).
memset(s, a, b, len) ==
  [Touch(s, a, len) EXCEPT
     !.mem = [x \in Window |-> IF a <= x /\ x < a + len THEN b ELSE s.mem[x]]]

\* memcpy(dst, src, len); overlapping regions are undefined behaviour.
memcpy(s, dst, src, len) ==
  LET t == Touch(Touch(s, dst, len), src, len)
      overlap == len > 0 /\ dst < src + len /\ src < dst + len
  IN [t EXCEPT
        !.ub = t.ub \/ overlap,
        !.mem = [x \in Window |->
                   IF dst <= x /\ x < dst + len THEN LoadByte(s, src + (x - dst))
                   ELSE s.mem[x]]]

\* The result of a call: the state it leaves, what it returns, the path taken.
Out(s, r, path) == [s |-> s, ret |-> r, path |-> path]

\* ------------------------------------------------------------------------
\* init(): reserve the heap on first use.  mmap() may fail, and then exit(1).

init(s, mapped) ==
  IF s.free_ptr = NULL THEN
    IF mapped
      THEN [s EXCEPT !.free_ptr = HeapBase, !.start_ptr = HeapBase,
                     !.end_ptr = HeapBase + HEAP_SIZE]
      ELSE [s EXCEPT !.stop = "exit"]
  ELSE s

\* ------------------------------------------------------------------------
\* malloc(): the search of the free list.

\* The while loop: current, previous and the heads already visited.  A header
\* visited twice means the loop never ends, nothing being written inside it.
RECURSIVE search(_, _, _, _, _)
search(s, current, previous, size, seen) ==
  IF current = NULL THEN [s |-> s, found |-> FALSE, current |-> NULL, previous |-> previous]
  ELSE IF current \in seen
    THEN [s |-> [s EXCEPT !.stop = "hang"], found |-> FALSE, current |-> current,
          previous |-> previous]
  ELSE LET s1 == Touch(s, current, WORD_SIZE) IN
    IF Load(s, current) >= size
      THEN [s |-> s1, found |-> TRUE, current |-> current, previous |-> previous]
      ELSE search(Touch(s1, current + OffsetNext, WORD_SIZE),
                  Load(s, current + OffsetNext), current, size, seen \cup {current})

\* previous->next = current->next; return current + sizeof(header_s);
unlink(s, current, previous) ==
  LET s1 == Touch(s, current + OffsetNext, WORD_SIZE)
      s2 == Store(s1, previous + OffsetNext, Load(s, current + OffsetNext))
  IN Out(s2, HeaderPlus(current, SizeofHeader), "reuse")

\* ------------------------------------------------------------------------
\* malloc(): a new block at free_ptr.

Excess(size) ==
  IF (size % DOUBLE_WORD_SIZE) # 0 THEN DOUBLE_WORD_SIZE - (size % DOUBLE_WORD_SIZE) ELSE 0

\* carve() writing the header and moving free_ptr before it checks the space.
carve_commits_first(s, size) ==
  LET block_size == Wrap(size + Excess(size))
      total_size == Wrap(block_size + SizeofHeader)
      to_return == s.free_ptr
      s1 == Store(s, to_return, size)
      s2 == Store(s1, to_return + OffsetNext, NULL)
      s3 == [s2 EXCEPT !.free_ptr = VoidPlus(VoidPlus(s.free_ptr, size), SizeofHeader)]
  IN IF Wrap(s.free_ptr + total_size) >= s.end_ptr THEN Out(s3, NULL, "fail")
     ELSE Out(s3, HeaderPlus(to_return, SizeofHeader), "carve")

carve(s, size) ==
  LET block_size == Wrap(size + Excess(size))
      total_size == Wrap(block_size + SizeofHeader)
  IN IF Wrap(s.free_ptr + total_size) >= s.end_ptr THEN Out(s, NULL, "fail")
     ELSE LET to_return == s.free_ptr
              s1 == Store(s, to_return, size)
              s2 == Store(s1, to_return + OffsetNext, NULL)
              s3 == [s2 EXCEPT !.free_ptr = VoidPlus(VoidPlus(s.free_ptr, size), SizeofHeader)]
          IN Out(s3, HeaderPlus(to_return, SizeofHeader), "carve")

\* malloc() without the special case for size 0.
malloc_no_zero_case(s0, size, mapped) ==
  LET s == init(s0, mapped) IN
  IF s.stop # "" THEN Out(s, NULL, "exit")
  ELSE IF s.free_list_head # NULL THEN
         LET f == search(s, s.free_list_head, NULL, size, {}) IN
         IF f.s.stop # "" THEN Out(f.s, NULL, "hang")
         ELSE IF f.found THEN unlink(f.s, f.current, f.previous)
         ELSE carve(f.s, size)
  ELSE carve(s, size)

malloc(s0, size, mapped) ==
  LET s == init(s0, mapped) IN
  IF s.stop # "" THEN Out(s, NULL, "exit")
  ELSE IF size = 0 THEN Out(s, NULL, "zero")
  ELSE IF s.free_list_head # NULL THEN
         LET f == search(s, s.free_list_head, NULL, size, {}) IN
         IF f.s.stop # "" THEN Out(f.s, NULL, "hang")
         ELSE IF f.found THEN unlink(f.s, f.current, f.previous)
         ELSE carve(f.s, size)
  ELSE carve(s, size)

\* ------------------------------------------------------------------------
\* free(): push the header found at ptr - sizeof(header_s).

free(s, ptr) ==
  IF ptr = NULL THEN s
  ELSE LET ptr_header == VoidPlus(ptr, 0 - SizeofHeader)
           temp == s.free_list_head
       IN Store([s EXCEPT !.free_list_head = ptr_header], ptr_header + OffsetNext, temp)

\* ------------------------------------------------------------------------
\* calloc().

\* calloc() returning the block as malloc() gave it, not cleared.
calloc_no_clear(s, nmemb, size, mapped) == malloc(s, Wrap(nmemb * size), mapped)

calloc(s, nmemb, size, mapped) ==
  LET block_size == Wrap(nmemb * size)
      m == malloc(s, block_size, mapped)
  IN IF m.ret # NULL /\ m.s.stop = "" THEN Out(memset(m.s, m.ret, 0, block_size), m.ret, m.path)
     ELSE m

\* ------------------------------------------------------------------------
\* realloc().

\* realloc() freeing the old block whether or not malloc() succeeded.
realloc_frees_anyway(s, ptr, size, mapped) ==
  IF ptr = NULL THEN malloc(s, size, mapped)
  ELSE IF size = 0 THEN Out(free(s, ptr), NULL, "release")
  ELSE LET temp == VoidPlus(ptr, 0 - SizeofHeader)
           s1 == Touch(s, temp, WORD_SIZE)
           block_size == Load(s, temp)
       IN IF size <= block_size
            THEN Out(Store(s1, VoidPlus(ptr, 0 - 1), size), ptr, "shrink")
            ELSE LET m == malloc(s1, size, mapped) IN
                 IF m.s.stop # "" THEN m
                 ELSE IF m.ret # NULL
                   THEN Out(free(memcpy(m.s, m.ret, ptr, block_size), ptr), m.ret, "grow")
                   ELSE Out(free(m.s, ptr), NULL, "growfail")

realloc(s, ptr, size, mapped) ==
  IF ptr = NULL THEN malloc(s, size, mapped)
  ELSE IF size = 0 THEN Out(free(s, ptr), NULL, "release")
  ELSE LET temp == VoidPlus(ptr, 0 - SizeofHeader)
           s1 == Touch(s, temp, WORD_SIZE)
           block_size == Load(s, temp)
       IN IF size <= block_size
            THEN Out(Store(s1, VoidPlus(ptr, 0 - 1), size), ptr, "shrink")
            ELSE LET m == malloc(s1, size, mapped) IN
                 IF m.s.stop # "" THEN m
                 ELSE IF m.ret # NULL
                   THEN Out(free(memcpy(m.s, m.ret, ptr, block_size), ptr), m.ret, "grow")
                   ELSE Out(m.s, NULL, "growfail")

\* ------------------------------------------------------------------------
\* The client program: it calls the allocator on pointers it holds (valid
\* use), and fills the blocks it holds with the byte Fill.

Fill == ByteMod - 1

\* Request sizes: zero, sizes that are and are not multiples of the double
\* word, sizeof(header_s)^2 - 2*sizeof(header_s) (the next header then starts
\* at ptr - sizeof(header_s)), sizeof(header_s)^2 - sizeof(header_s) (the next
\* header then starts at ptr), the size that fills the heap up to end_ptr and
\* the largest size_t.
Sizes ==
  {0, SizeofHeader + 1, SizeofHeader * SizeofHeader - 2 * SizeofHeader,
   SizeofHeader * SizeofHeader - SizeofHeader, HEAP_SIZE - SizeofHeader, Mod - 1}

\* calloc() arguments.
Counts == {0, 1, 2}

ElemSizes == {SizeofHeader}

\* realloc() sizes.
NewSizes == {0, SizeofHeader + 1, SizeofHeader * SizeofHeader - SizeofHeader, HEAP_SIZE - SizeofHeader}

Maps == IF free_ptr = NULL THEN BOOLEAN ELSE {TRUE}

\* A call: its arguments, the size the client knows for the block it passes
\* (old), its position in the run (at), and what it gave.
Call(op, ptr, n, old) ==
  [op |-> op, ptr |-> ptr, n |-> n, old |-> old, at |-> ops + 1, ret |-> NULL, path |-> ""]

Remove(seq, i) == [k \in 1 .. (Len(seq) - 1) |-> IF k < i THEN seq[k] ELSE seq[k + 1]]

Block(p, n) == [ptr |-> p, n |-> n, wr |-> FALSE]

Handed(rel, p) == {r \in rel : r.ptr # p}

\* The process ends inside the call.
Halt(kind, call) ==
  /\ pc' = kind
  /\ last' = [call EXCEPT !.path = kind]
  /\ UNCHANGED <<heap, live, released>>

\* The call returns o.ret, leaving the allocator in o.s.
Return(o, call, newLive, newReleased) ==
  /\ pc' = "run"
  /\ mem' = o.s.mem
  /\ free_ptr' = o.s.free_ptr
  /\ start_ptr' = o.s.start_ptr
  /\ end_ptr' = o.s.end_ptr
  /\ free_list_head' = o.s.free_list_head
  /\ last' = [call EXCEPT !.ret = o.ret, !.path = o.path]
  /\ live' = newLive
  /\ released' = newReleased

Finish(o, call, newLive, newReleased) ==
  /\ ops' = ops + 1
  /\ IF o.s.stop = "exit" THEN Halt("exited", call)
     ELSE IF o.s.stop = "hang" THEN Halt("hung", call)
     ELSE IF o.s.fault THEN Halt("crashed", call)
     ELSE \/ o.s.ub /\ Halt("crashed", call)
          \/ Return(o, call, newLive, newReleased)

\* The client goes on for at most limit steps.
ReadyFor(limit) == pc = "run" /\ ops < limit

Ready == ReadyFor(MaxOps)

Init ==
  /\ mem = [x \in Window |-> 0]
  /\ free_ptr = NULL
  /\ start_ptr = 0
  /\ end_ptr = 0
  /\ free_list_head = NULL
  /\ pc = "run"
  /\ live = <<>>
  /\ released = {}
  /\ last = [op |-> "none", ptr |-> NULL, n |-> 0, old |-> 0, at |-> 0, ret |-> NULL, path |-> ""]
  /\ ops = 0

MallocOf(sizes, limit) ==
  /\ ReadyFor(limit)
  /\ Len(live) < MaxLive
  /\ \E size \in sizes, mapped \in Maps :
       LET o == malloc(Cur, size, mapped) IN
       Finish(o, Call("malloc", NULL, size, 0),
              IF o.ret # NULL THEN Append(live, Block(o.ret, size)) ELSE live,
              IF o.ret # NULL THEN Handed(released, o.ret) ELSE released)

Malloc == MallocOf(Sizes, MaxOps)

CallocOf(counts, sizes, limit) ==
  /\ ReadyFor(limit)
  /\ Len(live) < MaxLive
  /\ \E nmemb \in counts, size \in sizes, mapped \in Maps :
       LET o == calloc(Cur, nmemb, size, mapped)
           n == Wrap(nmemb * size)
       IN Finish(o, Call("calloc", NULL, n, 0),
                 IF o.ret # NULL THEN Append(live, Block(o.ret, n)) ELSE live,
                 IF o.ret # NULL THEN Handed(released, o.ret) ELSE released)

Calloc == CallocOf(Counts, ElemSizes, MaxOps)

FreeOf(limit) ==
  /\ ReadyFor(limit)
  /\ \/ \E i \in 1 .. Len(live) :
          Finish(Out(free(Cur, live[i].ptr), NULL, "release"),
                 Call("free", live[i].ptr, 0, live[i].n),
                 Remove(live, i),
                 released \cup {[ptr |-> live[i].ptr, n |-> live[i].n]})
     \/ Finish(Out(free(Cur, NULL), NULL, "null"), Call("free", NULL, 0, 0), live, released)

Free == FreeOf(MaxOps)

ReallocOf(sizes, limit) ==
  /\ ReadyFor(limit)
  /\ \/ \E i \in 1 .. Len(live), size \in sizes :
          LET p == live[i].ptr
              o == realloc(Cur, p, size, TRUE)
              freed == released \cup {[ptr |-> p, n |-> live[i].n]}
          IN Finish(o, Call("realloc", p, size, live[i].n),
                    IF size = 0 THEN Remove(live, i)
                    ELSE IF o.ret = NULL THEN live
                    ELSE IF o.path = "shrink" THEN [live EXCEPT ![i] = Block(p, size)]
                    ELSE Append(Remove(live, i), Block(o.ret, size)),
                    IF size = 0 THEN freed
                    ELSE IF o.ret = NULL \/ o.path = "shrink" THEN released
                    ELSE Handed(freed, o.ret))
     \/ /\ Len(live) < MaxLive
        /\ \E size \in sizes, mapped \in Maps :
             LET o == realloc(Cur, NULL, size, mapped) IN
             Finish(o, Call("realloc", NULL, size, 0),
                    IF o.ret # NULL THEN Append(live, Block(o.ret, size)) ELSE live,
                    IF o.ret # NULL THEN Handed(released, o.ret) ELSE released)

Realloc == ReallocOf(NewSizes, MaxOps)

\* The client fills a block it holds.
WriteOf(limit) ==
  /\ ReadyFor(limit)
  /\ \E i \in 1 .. Len(live) :
       /\ ~live[i].wr
       /\ LET s == memset(Cur, live[i].ptr, Fill, live[i].n) IN
          IF s.fault THEN Halt("crashed", last) /\ ops' = ops + 1
          ELSE \/ s.ub /\ Halt("crashed", last) /\ ops' = ops + 1
               \/ /\ mem' = s.mem
                  /\ live' = [live EXCEPT ![i].wr = TRUE]
                  /\ ops' = ops + 1
                  /\ UNCHANGED <<free_ptr, start_ptr, end_ptr, free_list_head, pc, released,
                                 last>>

Write == WriteOf(MaxOps)

Next == Malloc \/ Calloc \/ Free \/ Realloc \/ Write

Spec == Init /\ [][Next]_vars

\* ------------------------------------------------------------------------
\* Longer runs of the client over fewer request sizes: the sizes that make a
\* later header start at ptr - sizeof(header_s), and the size that carries
\* free_ptr + size + sizeof(header_s) past the largest address.

LongOps == 5

LongSizes == {SizeofHeader * SizeofHeader - 2 * SizeofHeader, Mod - HeapBase}

LongCounts == {1}

LongNewSizes == {SizeofHeader + 1}

LongMalloc == MallocOf(LongSizes, LongOps)

LongCalloc == CallocOf(LongCounts, ElemSizes, LongOps)

LongFree == FreeOf(LongOps)

LongRealloc == ReallocOf(LongNewSizes, LongOps)

LongWrite == WriteOf(LongOps)

LongNext == LongMalloc \/ LongCalloc \/ LongFree \/ LongRealloc \/ LongWrite

LongSpec == Init /\ [][LongNext]_vars

\* ------------------------------------------------------------------------
\* Claims.

\* A step that is a call of the allocator (malloc, calloc, free, realloc).
IsCall == last'.at = ops + 1

\* The call returned to the client.
Returned == IsCall /\ pc' = "run"

\* The header malloc() wrote for the block it returned as p.
HeaderOf(p) == HeaderPlus(p, 0 - SizeofHeader)

\* The memory after the step, as a value Load reads.
After == [mem |-> mem']

\* n rounded up to the double-word boundary, as a true integer.
Padded(n) == n + Excess(n)

Disjoint(a, b) == a.ptr + a.n <= b.ptr \/ b.ptr + b.n <= a.ptr

\* C1: under valid use the payload regions [p, p+n) of the blocks the client
\* holds are pairwise disjoint, n being the size requested for the block.
C1_LiveBlocksDisjoint ==
  pc = "run" =>
    \A i, j \in 1 .. Len(live) : i < j => Disjoint(live[i], live[j])

\* C2: after free(p) of a live p, a following malloc(m) with 0 < m <= the size
\* recorded for p completes normally and returns the same address p.
C2_ReleaseThenAllocateReturnsSame ==
  [][(/\ IsCall
      /\ last.op = "free" /\ last.ptr # NULL
      /\ last'.op = "malloc" /\ 0 < last'.n /\ last'.n <= last.old)
     => (pc' = "run" /\ last'.ret = last.ptr)]_vars

\* C3: whenever a released block has capacity >= n (n > 0), malloc(n) returns
\* the payload address of one of the released blocks and leaves the frontier
\* unchanged.
C3_ReusesReleasedBlock ==
  [][(/\ IsCall
      /\ free_ptr # NULL
      /\ last'.op = "malloc" /\ last'.n > 0
      /\ \E r \in released : r.n >= last'.n)
     => (/\ pc' = "run"
         /\ last'.ret \in {r.ptr : r \in released}
         /\ free_ptr' = free_ptr)]_vars

\* C4: the bytes the client wrote into a block it holds read back unchanged
\* after any later calls that do not take that block's pointer as argument.
C4_LiveContentsKept ==
  pc = "run" =>
    \A i \in 1 .. Len(live) :
      live[i].wr => \A k \in 0 .. (live[i].n - 1) : LoadByte(Cur, live[i].ptr + k) = Fill

\* C5: when no free block fits, malloc(n) with n > 0 returns null exactly when
\* frontier + (n rounded up to the double word) + header stride > end, the sum
\* taken as a true integer sum.
C5_NullExactlyWhenBeyondEnd ==
  [][(/\ Returned
      /\ last'.op = "malloc" /\ last'.n > 0
      /\ last'.path \in {"carve", "fail"})
     => (last'.ret = NULL
           <=> (IF free_ptr = NULL THEN start_ptr' ELSE free_ptr)
                 + Padded(last'.n) + SizeofHeader > end_ptr')]_vars

\* A malloc(n) or calloc() of n > 0 bytes in all that returned null.
FailedAlloc == Returned /\ last'.op \in {"malloc", "calloc"} /\ last'.n > 0 /\ last'.ret = NULL

\* The first use of the heap reserves it and changes nothing else.
OnlyReserved ==
  /\ free_ptr' = start_ptr'
  /\ end_ptr' = start_ptr' + HEAP_SIZE
  /\ UNCHANGED <<mem, free_list_head>>

\* C6 as stated: a malloc()/calloc() that returns null for want of space leaves
\* the frontier, the free list, every header and every payload byte as they
\* were before the call.
C6_FailureChangesNothing == [][FailedAlloc => UNCHANGED heap]_vars

\* C6 (amended): a malloc()/calloc() that returns null for want of space leaves
\* the frontier, the bounds, the free list head and every byte of memory as
\* they were, except that a failing first call still reserves the heap.
C6_FailureOnlyReserves ==
  [][FailedAlloc => IF free_ptr = NULL THEN OnlyReserved ELSE UNCHANGED heap]_vars

C6_Witness ==
  /\ pc = "run" /\ last.op = "malloc" /\ last.n > 0 /\ last.ret = NULL /\ last.path = "fail"
  /\ free_list_head # NULL /\ live # <<>>

\* A malloc(0), or a calloc() whose nmemb * size is 0, that returned.
ZeroAlloc == Returned /\ last'.op \in {"malloc", "calloc"} /\ last'.n = 0

\* C7 as stated: malloc(0) and calloc() of 0 bytes return null and change no
\* allocator state, the heap reservation included, also as the first call.
C7_ZeroChangesNothing == [][ZeroAlloc => (last'.ret = NULL /\ UNCHANGED heap)]_vars

\* C7 (amended): malloc(0) and calloc() of 0 bytes return null and change
\* nothing but the heap reservation, which they make when they are the first
\* call of the process.
C7_ZeroOnlyReserves ==
  [][ZeroAlloc =>
       /\ last'.ret = NULL
       /\ IF free_ptr = NULL THEN OnlyReserved ELSE UNCHANGED heap]_vars

C7_Witness ==
  /\ pc = "run" /\ last.op \in {"malloc", "calloc"} /\ last.n = 0 /\ last.ret = NULL
  /\ ops = 1 /\ free_ptr = start_ptr /\ end_ptr = start_ptr + HEAP_SIZE

\* C8: realloc(p, m) of a live p with 0 < m <= the usable size recorded in p's
\* header returns p, sets the size field of p's own header to m, keeps bytes
\* 0..m-1 of p and changes neither the frontier nor the free list.
C8_ShrinkInPlace ==
  [][(/\ IsCall
      /\ last'.op = "realloc" /\ last'.ptr # NULL
      /\ 0 < last'.n /\ last'.n <= Load(Cur, HeaderOf(last'.ptr)))
     => (/\ pc' = "run"
         /\ last'.ret = last'.ptr
         /\ Load(After, HeaderOf(last'.ptr)) = last'.n
         /\ \A k \in 0 .. (last'.n - 1) :
              LoadByte(After, last'.ptr + k) = LoadByte(Cur, last'.ptr + k)
         /\ UNCHANGED <<free_ptr, free_list_head>>)]_vars

\* C9: realloc(p, m) of a live p whose recorded usable size is s, with m > s
\* and the allocation succeeding, returns q # p whose first s bytes are the s
\* bytes p held, and leaves p's header at the head of the free list.
C9_GrowCopiesAndReleases ==
  [][(/\ Returned
      /\ last'.op = "realloc" /\ last'.ptr # NULL
      /\ last'.n > Load(Cur, HeaderOf(last'.ptr))
      /\ last'.ret # NULL)
     => (/\ last'.ret # last'.ptr
         /\ \A k \in 0 .. (Load(Cur, HeaderOf(last'.ptr)) - 1) :
              LoadByte(After, last'.ret + k) = LoadByte(Cur, last'.ptr + k)
         /\ free_list_head' = HeaderOf(last'.ptr))]_vars

C11_CallocBlockIsZero ==
  [][(Returned /\ last'.op = "calloc" /\ last'.ret # NULL)
     => (/\ InWindow(last'.ret, last'.n)
         /\ \A k \in 0 .. (last'.n - 1) : LoadByte(After, last'.ret + k) = 0)]_vars

\* calloc() has just returned a block from the free list that another holder
\* had filled.
C11_Witness ==
  /\ pc = "run" /\ last.at = ops
  /\ last.op = "calloc" /\ last.path = "reuse" /\ last.ret # NULL /\ last.n > 0
  /\ \E i \in 1 .. Len(live) : live[i].wr /\ live[i].ptr = last.ret

\* ------------------------------------------------------------------------
\* The free list as the code walks it: the headers met from head, following
\* next, up to NULL or to the first header met a second time.

RECURSIVE chain(_, _, _)
chain(s, h, seen) ==
  IF h = NULL \/ h \in seen THEN <<>>
  ELSE <<h>> \o chain(s, Load(s, h + OffsetNext), seen \cup {h})

RECURSIVE cyclic(_, _, _)
cyclic(s, h, seen) ==
  IF h = NULL THEN FALSE
  ELSE IF h \in seen THEN TRUE
  ELSE cyclic(s, Load(s, h + OffsetNext), seen \cup {h})

FreeList(s) == chain(s, s.free_list_head, {})

Elems(seq) == {seq[k] : k \in 1 .. Len(seq)}

\* seq without its first occurrence of h.
Without(seq, h) ==
  LET at == CHOOSE k \in 1 .. Len(seq) : seq[k] = h /\ \A j \in 1 .. (k - 1) : seq[j] # h
  IN IF h \in Elems(seq) THEN Remove(seq, at) ELSE seq

\* The allocator after the step, as a value FreeList reads.
AfterHeap == [mem |-> mem', free_list_head |-> free_list_head']

\* C12: free(p) of a live p makes p's header the head of the free list with
\* its next field the previous head, and changes nothing else: the frontier,
\* the bounds and every other byte of memory stay; free(NULL) changes nothing.
C12_FreePushesHeader ==
  [][(IsCall /\ last'.op = "free")
     => IF last'.ptr = NULL THEN pc' = "run" /\ UNCHANGED heap
        ELSE /\ pc' = "run"
             /\ free_list_head' = HeaderOf(last'.ptr)
             /\ Load(After, HeaderOf(last'.ptr) + OffsetNext) = free_list_head
             /\ FreeList(AfterHeap) = <<HeaderOf(last'.ptr)>> \o FreeList(Cur)
             /\ UNCHANGED <<free_ptr, start_ptr, end_ptr>>
             /\ \A x \in Window :
                  (x < HeaderOf(last'.ptr) + OffsetNext
                     \/ x >= HeaderOf(last'.ptr) + SizeofHeader) => mem'[x] = mem[x]]_vars

\* C13: every header reachable from the head of the free list is the header
\* of a block that was released and not handed out again, no block the client
\* holds has it as header, no header is reachable twice, and the list is empty
\* exactly when no released block is left.
C13_FreeListInvariant ==
  pc = "run" =>
    /\ ~cyclic(Cur, free_list_head, {})
    /\ \A h \in Elems(FreeList(Cur)) :
         /\ \E r \in released : HeaderOf(r.ptr) = h
         /\ \A i \in 1 .. Len(live) : HeaderOf(live[i].ptr) # h
    /\ (free_list_head = NULL) <=> (released = {})

\* The header the search of malloc(n) selects in the current state.
Selected(n) == search(Cur, free_list_head, NULL, n, {})

\* C14: when malloc(n) selects a free header h, the call completes, and the
\* free list is afterwards the previous list with h removed, the order of the
\* others kept, whether h was the head, in the middle, the tail or alone.
C14_UnlinkInEveryPosition ==
  [][(/\ IsCall
      /\ last'.op \in {"malloc", "calloc"} /\ last'.n > 0
      /\ free_ptr # NULL
      /\ Selected(last'.n).found)
     => (/\ pc' = "run"
         /\ last'.ret = HeaderPlus(Selected(last'.n).current, SizeofHeader)
         /\ FreeList(AfterHeap) = Without(FreeList(Cur), Selected(last'.n).current))]_vars

\* C15: there is one stride: the header free(p) links and the header whose
\* size realloc(p, m) reads and updates are the header malloc() wrote for p.
C15_OneHeaderStride ==
  [][/\ (Returned /\ last'.op = "free" /\ last'.ptr # NULL)
          => free_list_head' = HeaderOf(last'.ptr)
     /\ (Returned /\ last'.op = "realloc" /\ last'.ptr # NULL /\ last'.n > 0)
          => /\ (last'.path = "shrink") <=> (last'.n <= Load(Cur, HeaderOf(last'.ptr)))
             /\ last'.path = "shrink" => Load(After, HeaderOf(last'.ptr)) = last'.n]_vars

\* C16: once the heap is reserved, start <= frontier <= end in every state,
\* whatever sizes are requested, and start and end keep their first values.
C16_FrontierInsideHeap ==
  (pc = "run" /\ free_ptr # NULL) =>
    /\ start_ptr = HeapBase /\ end_ptr = HeapBase + HEAP_SIZE
    /\ start_ptr <= free_ptr /\ free_ptr <= end_ptr

\* C17: the frontier never decreases, only a successful carve changes it, and
\* each newly carved header lies at or above the end of every block carved
\* before.
C17_FrontierOnlyAdvances ==
  [][(IsCall /\ free_ptr # NULL)
     => (/\ free_ptr' >= free_ptr
         /\ free_ptr' # free_ptr => last'.path = "carve"
         /\ last'.path = "carve" =>
              \A i \in 1 .. Len(live) : free_ptr >= live[i].ptr + live[i].n)]_vars

\* The frontier at which a malloc() in this step carves.
CarveAt == IF free_ptr = NULL THEN start_ptr' ELSE free_ptr

\* C18: carving for a request of n bytes writes at the old frontier a header
\* whose size is n rounded up to the double word and whose next is unset, and
\* advances the frontier by that padded size plus the header stride.
C18_CarveRecordsPaddedSize ==
  [][(Returned /\ last'.op = "malloc" /\ last'.path = "carve")
     => (/\ Load(After, CarveAt) = Padded(last'.n)
         /\ Load(After, CarveAt + OffsetNext) = NULL
         /\ free_ptr' = CarveAt + Padded(last'.n) + SizeofHeader)]_vars

\* C19: every non-null pointer p returned for a request of n bytes has its
\* header at or above start and p + n <= frontier <= end.
C19_ReturnedBlockInsideCarved ==
  [][(Returned /\ last'.op \in {"malloc", "calloc", "realloc"} /\ last'.ret # NULL)
     => (/\ start_ptr' <= HeaderOf(last'.ret)
         /\ last'.ret + last'.n <= free_ptr'
         /\ free_ptr' <= end_ptr')]_vars

\* C20: the frontier and every payload address handed out are multiples of
\* the double-word size, the start of the heap being one.
C20_DoubleWordAligned ==
  (pc = "run" /\ free_ptr # NULL) =>
    /\ start_ptr % DOUBLE_WORD_SIZE = 0
    /\ free_ptr % DOUBLE_WORD_SIZE = 0
    /\ \A i \in 1 .. Len(live) : live[i].ptr % DOUBLE_WORD_SIZE = 0

====
